---- MODULE Spec2Model ----
(***************************************************************************)
(* Model of src/server/server.ts: the tool-aggregation proxy.              *)
(*                                                                         *)
(* Strings that the code inspects character by character (backend          *)
(* identifiers, raw tool names, qualified names) are sequences of          *)
(* one-character strings.  Every step between two awaits of the code is    *)
(* one action (JavaScript runs a continuation to its next await without    *)
(* interleaving).                                                          *)
(***************************************************************************)
EXTENDS Integers, Sequences, FiniteSets, TLC

(***************************************************************************)
(* Characters and strings                                                  *)
(***************************************************************************)
Digits == {"1"}
WordChars == {"a", "b", "t", "u", "_"} \cup Digits
DOT == <<".">>
USCORE == <<"_">>

sanitizeNoPrefix(name) ==
    [i \in 1..Len(name) |-> IF name[i] \in WordChars THEN name[i] ELSE "_"]

\* name.replaceAll(/\W/g, '_').replace(/^\d/, '_$&')
sanitize(name) ==
    LET r == [i \in 1..Len(name) |-> IF name[i] \in WordChars THEN name[i] ELSE "_"]
    IN  IF Len(r) > 0 /\ r[1] \in Digits THEN USCORE \o r ELSE r

\* String.prototype.split('.'): the segments between the dots, empty ones kept
RECURSIVE split(_)
split(s) ==
    IF \A i \in 1..Len(s) : s[i] # "."
    THEN <<s>>
    ELSE LET k == CHOOSE i \in 1..Len(s) :
                      s[i] = "." /\ \A j \in 1..(i - 1) : s[j] # "."
         IN  <<SubSeq(s, 1, k - 1)>> \o split(SubSeq(s, k + 1, Len(s)))

\* Array.prototype.join(sep)
RECURSIVE join(_, _)
join(parts, sep) ==
    IF Len(parts) = 0 THEN <<>>
    ELSE IF Len(parts) = 1 THEN parts[1]
    ELSE parts[1] \o sep \o join(Tail(parts), sep)

\* parts.slice(1).map(sanitize).join('_')
toolKey(parts) ==
    join([i \in 1..(Len(parts) - 1) |-> sanitize(parts[i + 1])], USCORE)

\* `${serverName}.${tool.name}`
fullNameOf(serverName, toolName) == serverName \o DOT \o toolName

\* the callableName expression of getAllServerTools
callableNameOf(fullName) ==
    LET parts == split(fullName)
    IN  IF Len(parts) > 1
        THEN sanitize(parts[1]) \o DOT \o toolKey(parts)
        ELSE sanitize(fullName)

(***************************************************************************)
(* Inputs: backend identifiers, raw tool names, backend configurations     *)
(***************************************************************************)
ServerA == <<"a">>
ServerADotB == <<"a", ".", "b">>
ServerADashB == <<"a", "-", "b">>
ServerAUnderB == <<"a", "_", "b">>
ServerNames == {ServerA, ServerADotB, ServerADashB, ServerAUnderB}

ToolT == <<"t">>
ToolU == <<"u">>
ToolBDotT == <<"b", ".", "t">>
ToolNames == {ToolT, ToolU, ToolBDotT}

\* what a backend may answer to tools/list (the raw names, in reported order)
ToolLists == {<<ToolT, ToolU>>, <<ToolBDotT>>}

\* an optional field of a configuration: absent, or present with a value
Absent == <<>>
Present(v) == <<v>>
IsPresent(f) == Len(f) = 1
ValueOf(f) == f[1]

\* a header or environment value is a sequence of parts: literal text, or a
\* placeholder ${VAR}
Literal(text) == [kind |-> "literal", text |-> text]
Placeholder(var) == [kind |-> "placeholder", text |-> var]

\* process.env: SET has a value, EMPTY is the empty string, any other
\* variable is undefined
processEnv(var) ==
    CASE var = "SET" -> "value"
      [] var = "EMPTY" -> ""
      [] OTHER -> "undefined"

WithPlaceholders ==
    <<[key |-> "K", value |-> <<Literal("x"), Placeholder("SET"),
                                Placeholder("EMPTY"), Placeholder("UNSET")>>]>>

\* cfg.url is "none" (a local-process backend), "valid", or "invalid" (a
\* string that new URL() rejects); cfg.codemode.allow / deny are optional
\* lists of raw tool names; cfg.headers / env are optional objects
StdioOpen == [url |-> "none", allow |-> Absent, deny |-> Absent,
              headers |-> Absent, env |-> Present(WithPlaceholders)]
HttpAllowDeny == [url |-> "valid", allow |-> Present({ToolT}), deny |-> Present({ToolT}),
                  headers |-> Present(WithPlaceholders), env |-> Absent]
StdioDeny == [url |-> "none", allow |-> Absent, deny |-> Present({ToolT}),
              headers |-> Absent, env |-> Absent]
HttpBadUrl == [url |-> "invalid", allow |-> Present({}), deny |-> Absent,
               headers |-> Absent, env |-> Absent]
Servers == {StdioOpen, HttpAllowDeny, StdioDeny, HttpBadUrl}

\* the sets of identifiers that a configuration document may list
ServerSets == {{}, {ServerA}, {ServerADotB}, {ServerA, ServerADotB},
               {ServerADashB, ServerAUnderB}}

\* the parsed documents that have a "servers" object
Documents == UNION {[ids -> Servers] : ids \in ServerSets}

\* what a backend may answer to a tool call
CallResults == {[structuredContent |-> "structured", content |-> "content"],
                [structuredContent |-> "undefined", content |-> "content"]}

(***************************************************************************)
(* getClient: one call of the connector, as a record                       *)
(*   cfg      the caller's configuration object, as the call leaves it     *)
(*   transport  the values the transport is built with                     *)
(*   cb       the request that the callback issues on the client           *)
(*   requests the requests issued on the client, in order                  *)
(*   pc       where the call is: "connecting" (awaiting client.connect),   *)
(*            "inCallback" (awaiting cb), "closing" (awaiting              *)
(*            client.close in the finally block), "returned", "raised"     *)
(*   client   whether new Client(...) was executed                         *)
(*   closes   how many times client.close() was invoked                    *)
(*   pending  the completion of the try block, kept across the finally     *)
(*   outcome  what the call returned or raised to its caller               *)
(***************************************************************************)
NoCompletion == [kind |-> "none"]
Return(v) == [kind |-> "return", value |-> v]
Raise(e) == [kind |-> "raise", error |-> e]

\* lines 142-143: every ${VAR} whose variable has a non-empty value is
\* replaced by it, the others are kept
expandEnv(value) ==
    [i \in 1..Len(value) |->
        IF value[i].kind = "placeholder"
           /\ processEnv(value[i].text) \notin {"", "undefined"}
        THEN Literal(processEnv(value[i].text))
        ELSE value[i]]

\* lines 147-149 and 152-154: Object.fromEntries(Object.entries(o).map(...))
expandEntries(o) == [i \in 1..Len(o) |-> [o[i] EXCEPT !.value = expandEnv(@)]]

\* lines 144-156: the object that expand returns
expand(c) ==
    [c EXCEPT !.headers = IF IsPresent(@) THEN Present(expandEntries(ValueOf(@))) ELSE @,
              !.env = IF IsPresent(@) THEN Present(expandEntries(ValueOf(@))) ELSE @]

\* an expansion that assigns the expanded values to its argument
argumentAfterExpandInPlace(c) == expand(c)

\* lines 144-156: the argument object after expand(c), which builds a new
\* object (the spread of line 145) and assigns nothing to c
argumentAfterExpand(c) == c

\* the callbacks' requests: line 89-92 and line 74
ListRequest == [method |-> "tools/list", name |-> <<>>, arguments |-> "none"]
CallRequest(toolName, args) ==
    [method |-> "tools/call", name |-> toolName, arguments |-> args]

\* lines 163-176: expand, build the transport, create the client, call
\* client.connect; new URL(url) throws (the error is named "InvalidUrl"
\* here) on a string that is no URL
getClientStart(cfg, name, cb) ==
    IF cfg.url = "invalid"
    THEN [cfg |-> argumentAfterExpand(cfg), transport |-> expand(cfg), name |-> name,
          cb |-> cb, requests |-> <<>>, pc |-> "raised", client |-> FALSE,
          closes |-> 0, pending |-> NoCompletion, outcome |-> Raise("InvalidUrl")]
    ELSE [cfg |-> argumentAfterExpand(cfg), transport |-> expand(cfg), name |-> name,
          cb |-> cb, requests |-> <<>>, pc |-> "connecting", client |-> TRUE,
          closes |-> 0, pending |-> NoCompletion, outcome |-> NoCompletion]

\* entering the finally block: client.close() is invoked and awaited
getClientFinally(c, completion) ==
    [c EXCEPT !.pc = "closing", !.pending = completion, !.closes = @ + 1]

\* a connector that invokes its callback twice
getClientConnectedTwice(c, ok) ==
    IF ok THEN [c EXCEPT !.pc = "inCallback", !.requests = @ \o <<c.cb, c.cb>>]
    ELSE getClientFinally(c, Raise("ConnectionError"))

\* line 176 settles: on success the callback is invoked (line 177) and
\* issues its request
getClientConnected(c, ok) ==
    IF ok THEN [c EXCEPT !.pc = "inCallback", !.requests = Append(@, c.cb)]
    ELSE getClientFinally(c, Raise("ConnectionError"))

\* a connector whose callback error skips the close (no finally block)
getClientCallbackNoFinally(c, completion) ==
    IF completion.kind = "raise"
    THEN [c EXCEPT !.pc = "raised", !.pending = completion, !.outcome = completion]
    ELSE getClientFinally(c, completion)

\* line 177 settles with the callback's completion
getClientCallback(c, completion) == getClientFinally(c, completion)

\* line 179 settles: the finally block ends normally and the try block's
\* completion stands, or close() throws and its error replaces it
getClientClosed(c, ok) ==
    LET result == IF ok THEN c.pending ELSE Raise("CloseError")
    IN  [c EXCEPT !.pc = IF result.kind = "return" THEN "returned" ELSE "raised",
                  !.outcome = result]

(***************************************************************************)
(* getAllServerTools: the work on one backend's answer                     *)
(***************************************************************************)
\* a filter that applies the deny list also when an allow list is present
filteredToolsAllowAndDeny(cfg, serverTools) ==
    LET kept(t) == /\ IsPresent(cfg.allow) => t.name \in ValueOf(cfg.allow)
                   /\ IsPresent(cfg.deny) => t.name \notin ValueOf(cfg.deny)
    IN  SelectSeq(serverTools, kept)

\* a filter that applies the allow list only
filteredToolsAllowOnly(cfg, serverTools) ==
    IF IsPresent(cfg.allow)
    THEN LET inAllow(t) == t.name \in ValueOf(cfg.allow)
         IN  SelectSeq(serverTools, inAllow)
    ELSE serverTools

\* lines 97-99: cfg.codemode?.allow ? filter(allow.includes) : filter(!deny?.includes)
\* (Array.prototype.filter is SelectSeq)
filteredTools(cfg, serverTools) ==
    IF IsPresent(cfg.allow)
    THEN LET inAllow(t) == t.name \in ValueOf(cfg.allow)
         IN  SelectSeq(serverTools, inAllow)
    ELSE LET notInDeny(t) == ~(IsPresent(cfg.deny) /\ t.name \in ValueOf(cfg.deny))
         IN  SelectSeq(serverTools, notInDeny)

\* obj[key] = value on a JavaScript object whose entries keep insertion order
\* (a sequence of [key, value]): an existing key keeps its place
RECURSIVE putEntry(_, _, _)
putEntry(obj, key, value) ==
    IF Len(obj) = 0 THEN <<[key |-> key, value |-> value]>>
    ELSE IF Head(obj).key = key THEN <<[key |-> key, value |-> value]>> \o Tail(obj)
    ELSE <<Head(obj)>> \o putEntry(Tail(obj), key, value)

hasKey(obj, key) == \E i \in 1..Len(obj) : obj[i].key = key
getEntry(obj, key) == obj[CHOOSE i \in 1..Len(obj) : obj[i].key = key].value
keysOf(obj) == {obj[i].key : i \in 1..Len(obj)}

\* a closure that captures the names the tool is published under
closureOfPublishedName(serverName, tool) ==
    [serverName |-> sanitize(serverName),
     toolName |-> toolKey(split(fullNameOf(serverName, tool.name)))]

\* lines 112-113: the closure (args) => executeTool(serverName, tool.name,
\* args), kept as the pair of values it captures
closureOf(serverName, tool) == [serverName |-> serverName, toolName |-> tool.name]

\* lines 101-128, one iteration of the forEach; st holds the four
\* collections the loop body writes.  The closure of line 112 is kept as the
\* pair of values it captures.
registerTool(st, serverName, cfg, tool) ==
    LET fullName == fullNameOf(serverName, tool.name)
        callableName == callableNameOf(fullName)
    IN  [serverTools |-> putEntry(st.serverTools, callableName,
                                  [tool EXCEPT !.name = callableName]),
         rawTools |-> putEntry(st.rawTools, fullName, closureOf(serverName, tool)),
         toolList |-> Append(st.toolList,
                             [name |-> fullName, description |-> tool.description,
                              inputSchema |-> tool.inputSchema]),
         toolRegistry |-> Append(st.toolRegistry,
                                 [serverName |-> serverName, cfg |-> cfg,
                                  tool |-> [name |-> tool.name,
                                            description |-> tool.description,
                                            inputSchema |-> tool.inputSchema]])]

\* a loop that registers the last tool first
RECURSIVE registerToolsReversed(_, _, _, _)
registerToolsReversed(st, serverName, cfg, tools) ==
    IF Len(tools) = 0 THEN st
    ELSE registerTool(registerToolsReversed(st, serverName, cfg, Tail(tools)),
                      serverName, cfg, Head(tools))

\* lines 101-128, the whole forEach
RECURSIVE registerTools(_, _, _, _)
registerTools(st, serverName, cfg, tools) ==
    IF Len(tools) = 0 THEN st
    ELSE registerTools(registerTool(st, serverName, cfg, Head(tools)),
                       serverName, cfg, Tail(tools))

\* lines 186-200; the result is the nested object out[ns][tool], as entries
\* in insertion order
RECURSIVE prepareToolsFrom(_, _)
prepareToolsFrom(out, tools) ==
    IF Len(tools) = 0 THEN out
    ELSE LET name == Head(tools).key
             fn == Head(tools).value
             parts == split(name)
             ns == sanitize(parts[1])
             inner == IF hasKey(out, ns) THEN getEntry(out, ns) ELSE <<>>
             next == IF Len(parts) > 1
                     THEN putEntry(out, ns, putEntry(inner, toolKey(parts), fn))
                     ELSE putEntry(out, sanitize(name), fn)
         IN  prepareToolsFrom(next, Tail(tools))

prepareTools(tools) == prepareToolsFrom(<<>>, tools)

(***************************************************************************)
(* toType (lines 213-239)                                                  *)
(*                                                                         *)
(* A schema value is a root and its nodes; a node refers to its children   *)
(* by their index, so that a schema can refer back to an enclosing node.   *)
(* Index 0 is the absent (undefined or null) schema.  A node is            *)
(*   enum        [kind |-> "absent"], [kind |-> "list", values |-> ...] or *)
(*               [kind |-> "other"] (a truthy value that is no array)      *)
(*   type        the value of s.type, "undefined" if it has none           *)
(*   items       the index of s.items, 0 if it has none                    *)
(*   properties  [kind |-> "absent"] or [kind |-> "present", entries |->   *)
(*               sequence of [key, node]] in declared order                *)
(*   required    [kind |-> "absent"], [kind |-> "list", keys |-> ...] or   *)
(*               [kind |-> "other"] (a value without an includes method)   *)
(***************************************************************************)
NoEnum == [kind |-> "absent"]
EnumList(values) == [kind |-> "list", values |-> values]
EnumOther == [kind |-> "other"]
NoProperties == [kind |-> "absent"]
Properties(entries) == [kind |-> "present", entries |-> entries]
NoRequired == [kind |-> "absent"]
Required(keys) == [kind |-> "list", keys |-> keys]
RequiredOther == [kind |-> "other"]

StringLiteral(v) == [isString |-> TRUE, text |-> v]
OtherLiteral(v) == [isString |-> FALSE, text |-> v]

Node(enum, type, items, properties, required) ==
    [enum |-> enum, type |-> type, items |-> items,
     properties |-> properties, required |-> required]

\* how many nested calls of toType the engine's call stack holds before it
\* throws a RangeError
StackLimit == 8

Text(t) == [kind |-> "text", text |-> t]

\* lines 216-218: s.enum.map(...).join(' | ')
RECURSIVE enumText(_)
enumText(values) ==
    IF Len(values) = 0 THEN ""
    ELSE LET v == Head(values)
             lit == IF v.isString THEN "\"" \o v.text \o "\"" ELSE v.text
         IN  IF Len(values) = 1 THEN lit
             ELSE lit \o " | " \o enumText(Tail(values))

\* lines 230-238: the lookup of s.type among the primitive names
primitiveText(type) ==
    CASE type = "string" -> "string"
      [] type = "number" -> "number"
      [] type = "integer" -> "number"
      [] type = "boolean" -> "boolean"
      [] type = "null" -> "null"
      [] OTHER -> "any"

\* line 222: the recursion depth cap
depthCappedAbove3(d) == d > 3
depthCapped(d) == d > 2

RECURSIVE toTypeAt(_, _, _), propertiesText(_, _, _, _)

\* lines 223-228: Object.entries(s.properties).map(...).join('; '); the
\* first property whose rendering raises ends the map
propertiesText(nodes, entries, required, d) ==
    IF Len(entries) = 0 THEN Text("")
    ELSE IF required.kind = "other" THEN Raise("NotAFunction")
    ELSE LET e == Head(entries)
             mark == IF required.kind = "list" /\ e.key \in required.keys
                     THEN "" ELSE "?"
             first == toTypeAt(nodes, e.node, d + 1)
             rest == propertiesText(nodes, Tail(entries), required, d)
         IN  IF first.kind = "raise" THEN first
             ELSE IF rest.kind = "raise" THEN rest
             ELSE Text(e.key \o mark \o ": " \o first.text
                       \o (IF Len(entries) = 1 THEN "" ELSE "; " \o rest.text))

\* lines 213-239: toType(s, d) for the node s = nodes[id]
toTypeAt(nodes, id, d) ==
    IF d > StackLimit THEN Raise("RangeError")
    ELSE IF id = 0 THEN Text("any")
    ELSE LET s == nodes[id]
         IN  IF s.enum.kind = "other" THEN Raise("NotAFunction")
             ELSE IF s.enum.kind = "list" THEN Text(enumText(s.enum.values))
             ELSE IF s.type = "array"
             THEN IF s.items = 0 THEN Text("any[]")
                  ELSE LET item == toTypeAt(nodes, s.items, d + 1)
                       IN  IF item.kind = "raise" THEN item
                           ELSE Text("(" \o item.text \o ")[]")
             ELSE IF s.type = "object"
             THEN IF s.properties.kind = "absent" \/ depthCapped(d)
                  THEN Text("{ [key: string]: any }")
                  ELSE LET inner == propertiesText(nodes, s.properties.entries,
                                                   s.required, d)
                       IN  IF inner.kind = "raise" THEN inner
                           ELSE Text("{ " \o inner.text \o " }")
             ELSE Text(primitiveText(s.type))

\* toType(schema), with the default d = 0
toType(schema) == toTypeAt(schema.nodes, schema.root, 0)

\* the input schemas a backend reports:
\* {type: 'object', properties: {n: {type: 'number'}}, required: ['n']} and
\* {type: 'object', properties: {p: {enum: 'abc'}}}
NumberArg ==
    [root |-> 1,
     nodes |-> <<Node(NoEnum, "object", 0, Properties(<<[key |-> "n", node |-> 2]>>),
                      Required({"n"})),
                 Node(NoEnum, "number", 0, NoProperties, NoRequired)>>]
EnumNoListArg ==
    [root |-> 1,
     nodes |-> <<Node(NoEnum, "object", 0, Properties(<<[key |-> "p", node |-> 2]>>),
                      NoRequired),
                 Node(EnumOther, "undefined", 0, NoProperties, NoRequired)>>]

\* a tool as the backend serverName reports it (each backend describes its
\* own tools, so the description tells the registrations apart)
ReportedTool(serverName, toolName, inputSchema) ==
    [name |-> toolName, description |-> <<serverName, toolName>>,
     inputSchema |-> inputSchema]
ReportedTools(serverName, names, inputSchema) ==
    [i \in 1..Len(names) |-> ReportedTool(serverName, names[i], inputSchema)]

\* lines 205-211: the declaration of one tool, as the parts its text is
\* built from; toType's error is generateInterface's
generateInterface(tool) ==
    LET parts == split(tool.name)
        args == toType(tool.inputSchema)
    IN  IF args.kind = "raise" THEN args
        ELSE IF Len(parts) > 1
        THEN Return([namespace |-> Present(sanitize(parts[1])),
                     function |-> toolKey(parts),
                     description |-> tool.description, args |-> args.text])
        ELSE Return([namespace |-> Absent, function |-> sanitize(tool.name),
                     description |-> tool.description, args |-> args.text])

\* lines 202-203: one declaration per line; the first tool whose declaration
\* raises ends the map
generateInterfaces(tools) ==
    LET each == [i \in 1..Len(tools) |-> generateInterface(tools[i])]
        raised == {i \in 1..Len(tools) : each[i].kind = "raise"}
    IN  IF raised # {}
        THEN each[CHOOSE i \in raised : \A j \in raised : i <= j]
        ELSE Return([i \in 1..Len(tools) |-> each[i].value])

(***************************************************************************)
(* State                                                                   *)
(***************************************************************************)
VARIABLES
    server,        \* line 27: "null" or "McpServer"
    serverConfig,  \* line 28: [tools, interfaces, serverTools]
    toolRegistry,  \* line 29: sequence of [serverName, cfg, tool]
    initPc,        \* where init() is: "idle" (not called), "reading",
                   \* "aggregating", "registering", "connecting", "done", "failed"
    initError,     \* what init() raised, or "none"
    passes,        \* how many times init() was called
    rawTools,      \* line 80, local of getAllServerTools
    toolList,      \* line 81, local of getAllServerTools
    queries,       \* the async closures of line 84, one per configured backend:
                   \* [call, completion, serverTools, resumedAt]; resumedAt
                   \* is the closure's rank among those that resumed at
                   \* line 97 with the backend's answer, 0 if it has not
    exec,          \* the executeTool call in progress: [pc, serverName,
                   \* toolName, call, outcome]
    probe          \* one application of a pure function: [fn, arg, value]

vars == <<server, serverConfig, toolRegistry, initPc, initError, passes,
          rawTools, toolList, queries, exec, probe>>

NoCall == [pc |-> "none"]
NoProbe == [fn |-> "none"]
ExecIdle == [pc |-> "idle", serverName |-> <<>>, toolName |-> <<>>,
             args |-> "none", call |-> NoCall, outcome |-> NoCompletion]

ProgramInit ==
    /\ server = "null"
    /\ serverConfig = [tools |-> <<>>, interfaces |-> <<>>, serverTools |-> <<>>]
    /\ toolRegistry = <<>>
    /\ initPc = "idle"
    /\ initError = "none"
    /\ passes = 0
    /\ rawTools = <<>>
    /\ toolList = <<>>
    /\ queries = <<>>
    /\ exec = ExecIdle

Init == ProgramInit /\ probe = NoProbe

aggregationVars == <<serverConfig, toolRegistry, rawTools, toolList, queries>>

(***************************************************************************)
(* init (lines 36-44)                                                      *)
(***************************************************************************)
\* init() is called: readFile is started and awaited
InitCall ==
    /\ initPc = "idle"
    /\ initPc' = "reading"
    /\ passes' = passes + 1
    /\ UNCHANGED <<server, initError, aggregationVars, exec, probe>>

\* init() raises error to its caller
initFails(error) ==
    /\ initPc' = "failed"
    /\ initError' = error
    /\ UNCHANGED <<server, passes, exec, probe>>

\* line 38: CODEMODE_SERVERS is unset or names no readable file
ReadFileFails ==
    /\ initPc = "reading"
    /\ initFails("ReadError")
    /\ UNCHANGED aggregationVars

\* line 37: the text is not JSON
ParseFails ==
    /\ initPc = "reading"
    /\ initFails("SyntaxError")
    /\ UNCHANGED aggregationVars

\* lines 37-40 and 79-84: the file is empty (parsed as '{}') or its document
\* has no "servers": getAllServerTools creates its locals and
\* Object.entries(undefined) throws
NoServers ==
    /\ initPc = "reading"
    /\ rawTools' = <<>>
    /\ toolList' = <<>>
    /\ initFails("TypeError")
    /\ UNCHANGED <<serverConfig, toolRegistry, queries>>

\* a closure without the catch of line 129: getClient's error escapes it
queryCompletionNoCatch(call) ==
    IF call.pc = "returned" THEN Return("undefined")
    ELSE IF call.pc = "raised" THEN call.outcome
    ELSE NoCompletion

\* lines 85-134: how the async closure of a backend completes once its
\* getClient call has returned or raised: the try block ends after the
\* registration, or the catch of line 129 logs the error; either way the
\* closure returns
queryCompletion(call) ==
    IF call.pc \in {"returned", "raised"} THEN Return("undefined") ELSE NoCompletion

\* line 84, one async closure up to its first await: getClient runs to
\* client.connect, or new URL throws
launchQuery(cfg, serverName) ==
    LET call == getClientStart(cfg, serverName, ListRequest)
    IN  [call |-> call, completion |-> queryCompletion(call), serverTools |-> <<>>,
         resumedAt |-> 0]

\* lines 37-40 and 79-84: the document is parsed and every backend's query
\* is launched
Launch(doc) ==
    /\ initPc = "reading"
    /\ rawTools' = <<>>
    /\ toolList' = <<>>
    /\ queries' = [b \in DOMAIN doc |-> launchQuery(doc[b], b)]
    /\ initPc' = "aggregating"
    /\ UNCHANGED <<server, serverConfig, toolRegistry, initError, passes, exec, probe>>

\* client.connect of backend b's query settles
ConnectSettles(b, ok) ==
    /\ initPc = "aggregating"
    /\ queries[b].call.pc = "connecting"
    /\ queries' = [queries EXCEPT ![b].call = getClientConnected(@, ok)]
    /\ UNCHANGED <<server, serverConfig, toolRegistry, initPc, initError, passes,
                   rawTools, toolList, exec, probe>>

\* the tools/list request of backend b's query settles (lines 89-95)
ListSettles(b, completion) ==
    /\ initPc = "aggregating"
    /\ queries[b].call.pc = "inCallback"
    /\ queries' = [queries EXCEPT ![b].call = getClientCallback(@, completion)]
    /\ UNCHANGED <<server, serverConfig, toolRegistry, initPc, initError, passes,
                   rawTools, toolList, exec, probe>>

\* lines 97-128: the continuation of backend b's query after getClient
\* returned serverTools
registerAnswer(b, call) ==
    LET st == registerTools([serverTools |-> serverConfig.serverTools,
                             rawTools |-> rawTools, toolList |-> toolList,
                             toolRegistry |-> toolRegistry],
                            b, call.cfg, filteredTools(call.cfg, call.outcome.value))
    IN  /\ serverConfig' = [serverConfig EXCEPT !.serverTools = st.serverTools]
        /\ rawTools' = st.rawTools
        /\ toolList' = st.toolList
        /\ toolRegistry' = st.toolRegistry

\* client.close of backend b's query settles: getClient returns and the
\* answer is filtered and registered, or it raises and line 129 catches
CloseSettles(b, ok) ==
    /\ initPc = "aggregating"
    /\ queries[b].call.pc = "closing"
    /\ LET call == getClientClosed(queries[b].call, ok)
           resumed == {q \in DOMAIN queries : queries[q].resumedAt > 0}
       IN  /\ queries' = [queries EXCEPT ![b] =
                  [call |-> call, completion |-> queryCompletion(call),
                   serverTools |-> IF call.pc = "returned"
                                   THEN call.outcome.value ELSE <<>>,
                   resumedAt |-> IF call.pc = "returned"
                                 THEN Cardinality(resumed) + 1 ELSE 0]]
           /\ IF call.pc = "returned"
              THEN registerAnswer(b, call)
              ELSE UNCHANGED <<serverConfig, rawTools, toolList, toolRegistry>>
    /\ UNCHANGED <<server, initPc, initError, passes, exec, probe>>

\* a combinator that resolves with the first closure to return (Promise.any)
promiseAny(qs) ==
    IF DOMAIN qs = {} \/ \E b \in DOMAIN qs : qs[b].completion.kind = "return"
    THEN Return("undefined")
    ELSE NoCompletion

\* Promise.all (line 83): rejects once a closure has raised, resolves when
\* every closure has returned, and is pending otherwise
promiseAll(qs) ==
    LET raised == {b \in DOMAIN qs : qs[b].completion.kind = "raise"}
    IN  IF raised # {} THEN qs[CHOOSE b \in raised : TRUE].completion
        ELSE IF \A b \in DOMAIN qs : qs[b].completion.kind = "return"
        THEN Return("undefined")
        ELSE NoCompletion

\* line 83 settles.  Resolved: line 138 publishes the dispatch map and line
\* 139 the signature document, line 41 creates the server and registerTools
\* is awaited; if generateInterfaces raises at line 139, the dispatch map is
\* published and getAllServerTools and init raise the error.  Rejected:
\* getAllServerTools and init raise the error.
Join ==
    /\ initPc = "aggregating"
    /\ LET all == promiseAll(queries)
           interfaces == generateInterfaces(toolList)
       IN  /\ all.kind # "none"
           /\ IF all.kind = "return" /\ interfaces.kind = "return"
              THEN /\ serverConfig' =
                        [serverConfig EXCEPT !.tools = prepareTools(rawTools),
                                             !.interfaces = interfaces.value]
                   /\ server' = "McpServer"
                   /\ initPc' = "registering"
                   /\ UNCHANGED initError
              ELSE IF all.kind = "return"
              THEN /\ serverConfig' =
                        [serverConfig EXCEPT !.tools = prepareTools(rawTools)]
                   /\ initPc' = "failed"
                   /\ initError' = interfaces.error
                   /\ UNCHANGED server
              ELSE /\ initPc' = "failed"
                   /\ initError' = all.error
                   /\ UNCHANGED <<server, serverConfig>>
    /\ UNCHANGED <<toolRegistry, passes, rawTools, toolList, queries, exec, probe>>

\* lines 46-62: registerTools settles; it rethrows what it caught
RegisterToolsSettles(ok) ==
    /\ initPc = "registering"
    /\ IF ok
       THEN initPc' = "connecting" /\ UNCHANGED initError
       ELSE initPc' = "failed" /\ initError' = "RegisterError"
    /\ UNCHANGED <<server, passes, aggregationVars, exec, probe>>

\* line 43: server.connect settles
ServerConnectSettles(ok) ==
    /\ initPc = "connecting"
    /\ IF ok
       THEN initPc' = "done" /\ UNCHANGED initError
       ELSE initPc' = "failed" /\ initError' = "ServerConnectError"
    /\ UNCHANGED <<server, passes, aggregationVars, exec, probe>>

(***************************************************************************)
(* executeTool (lines 64-77)                                               *)
(***************************************************************************)
\* a lookup that compares the tool name only
findEntryByToolName(registry, serverName, toolName) ==
    LET hits == {i \in 1..Len(registry) : registry[i].tool.name = toolName}
    IN  IF hits = {} THEN 0 ELSE CHOOSE i \in hits : \A j \in hits : i <= j

\* toolRegistry.find(...) of line 69: the index of the first match, 0 if none
findEntry(registry, serverName, toolName) ==
    LET hits == {i \in 1..Len(registry) :
                    /\ registry[i].serverName = serverName
                    /\ registry[i].tool.name = toolName}
    IN  IF hits = {} THEN 0 ELSE CHOOSE i \in hits : \A j \in hits : i <= j

\* a selection that prefers the unstructured content
payloadOfContentFirst(result) ==
    IF result.content # "undefined" THEN result.content ELSE result.structuredContent

\* line 76: result.structuredContent || result.content
payloadOf(result) ==
    IF result.structuredContent # "undefined"
    THEN result.structuredContent ELSE result.content

\* lines 69-73 up to the first await: the lookup, then getClient to
\* client.connect
executeToolStart(registry, serverName, toolName, args) ==
    LET i == findEntry(registry, serverName, toolName)
        call == getClientStart(registry[i].cfg, serverName,
                               CallRequest(toolName, args))
    IN  IF i = 0
        THEN [pc |-> "done", serverName |-> serverName, toolName |-> toolName,
              args |-> args, call |-> NoCall, outcome |-> Raise("NotFound")]
        ELSE IF call.pc = "raised"
        THEN [pc |-> "done", serverName |-> serverName, toolName |-> toolName,
              args |-> args, call |-> call, outcome |-> call.outcome]
        ELSE [pc |-> "running", serverName |-> serverName, toolName |-> toolName,
              args |-> args, call |-> call, outcome |-> NoCompletion]

\* the router index after executeToolStart: entry.cfg is the object that
\* getClient was given
registryAfterStart(registry, e) ==
    LET i == findEntry(registry, e.serverName, e.toolName)
    IN  IF i = 0 THEN registry ELSE [registry EXCEPT ![i].cfg = e.call.cfg]

\* lines 73-76 after getClient settled: its error propagates, or the payload
\* of its result is returned
executeToolEnd(e, call) ==
    [e EXCEPT !.pc = "done", !.call = call,
              !.outcome = IF call.pc = "returned"
                          THEN Return(payloadOf(call.outcome.value))
                          ELSE call.outcome]

execFrame == <<server, serverConfig, toolRegistry, initPc, initError, passes,
               rawTools, toolList, queries, probe>>

\* a caller invokes executeTool(serverName, toolName, args)
ExecuteTool(serverName, toolName, args) ==
    /\ exec.pc = "idle"
    /\ exec' = executeToolStart(toolRegistry, serverName, toolName, args)
    /\ toolRegistry' = registryAfterStart(toolRegistry, exec')
    /\ UNCHANGED <<server, serverConfig, initPc, initError, passes, rawTools,
                   toolList, queries, probe>>

\* a caller invokes the callable ns.key of the published dispatch map with
\* args: the closure of lines 112-113 runs
InvokeCallable(ns, key, args) ==
    /\ hasKey(serverConfig.tools, ns)
    /\ hasKey(getEntry(serverConfig.tools, ns), key)
    /\ LET fn == getEntry(getEntry(serverConfig.tools, ns), key)
       IN  ExecuteTool(fn.serverName, fn.toolName, args)

\* client.connect of the invocation settles
ExecConnectSettles(ok) ==
    /\ exec.pc = "running"
    /\ exec.call.pc = "connecting"
    /\ exec' = [exec EXCEPT !.call = getClientConnected(@, ok)]
    /\ UNCHANGED execFrame

\* client.callTool (line 74) settles
ExecCallSettles(completion) ==
    /\ exec.pc = "running"
    /\ exec.call.pc = "inCallback"
    /\ exec' = [exec EXCEPT !.call = getClientCallback(@, completion)]
    /\ UNCHANGED execFrame

\* client.close of the invocation settles and executeTool finishes
ExecCloseSettles(ok) ==
    /\ exec.pc = "running"
    /\ exec.call.pc = "closing"
    /\ exec' = executeToolEnd(exec, getClientClosed(exec.call, ok))
    /\ UNCHANGED execFrame

\* the caller has taken the result; another invocation can follow
ExecTaken ==
    /\ exec.pc = "done"
    /\ exec' = ExecIdle
    /\ UNCHANGED execFrame

(***************************************************************************)
(* Specifications                                                          *)
(***************************************************************************)
ListCompletions(b) ==
    {Return(ReportedTools(b, names, NumberArg)) : names \in ToolLists}
    \cup {Return(ReportedTools(b, <<ToolT>>, EnumNoListArg)), Raise("BackendError")}
CallCompletions == {Return(r) : r \in CallResults} \cup {Raise("BackendError")}

\* the steps of init after the configuration document was parsed
InitSteps ==
    \/ InitCall
    \/ ReadFileFails
    \/ ParseFails
    \/ NoServers
    \/ \E b \in DOMAIN queries, ok \in BOOLEAN : ConnectSettles(b, ok)
    \/ \E b \in DOMAIN queries : \E c \in ListCompletions(b) : ListSettles(b, c)
    \/ \E b \in DOMAIN queries, ok \in BOOLEAN : CloseSettles(b, ok)
    \/ Join
    \/ \E ok \in BOOLEAN : RegisterToolsSettles(ok)
    \/ \E ok \in BOOLEAN : ServerConnectSettles(ok)

InitNext == InitSteps \/ \E doc \in Documents : Launch(doc)

\* the arguments of an invocation
ArgsValues == {"args"}

\* the names under which the dispatch map may hold a callable
Namespaces == {sanitize(s) : s \in ServerNames}
Keys == {toolKey(split(fullNameOf(s, t))) : s \in ServerNames, t \in ToolNames}

ExecNext ==
    \/ \E s \in ServerNames, t \in ToolNames, a \in ArgsValues : ExecuteTool(s, t, a)
    \/ \E ns \in Namespaces, k \in Keys, a \in ArgsValues : InvokeCallable(ns, k, a)
    \/ \E ok \in BOOLEAN : ExecConnectSettles(ok)
    \/ \E c \in CallCompletions : ExecCallSettles(c)
    \/ \E ok \in BOOLEAN : ExecCloseSettles(ok)
    \/ ExecTaken

Next == InitNext \/ ExecNext

\* the program as it runs: init is called once, invocations come at any time
Spec == Init /\ [][Next]_vars

\* how many times the host may call init in SpecReinit
MaxPasses == 2

\* init() is called again after an earlier call has finished
InitAgain ==
    /\ initPc \in {"done", "failed"}
    /\ passes < MaxPasses
    /\ initPc' = "reading"
    /\ initError' = "none"
    /\ passes' = passes + 1
    /\ UNCHANGED <<server, aggregationVars, exec, probe>>

\* the documents of a host that re-runs init: no backend, or the backend a
ReinitDocuments == {doc \in Documents : DOMAIN doc \subseteq {ServerA}}

NextReinit == InitSteps \/ (\E doc \in ReinitDocuments : Launch(doc)) \/ InitAgain

\* a host that re-runs init (a re-aggregation), with no invocation in flight
SpecReinit == Init /\ [][NextReinit]_vars

(***************************************************************************)
(* The pure functions, applied to one argument                             *)
(***************************************************************************)
programVars == <<server, serverConfig, toolRegistry, initPc, initError, passes,
                 rawTools, toolList, queries, exec>>

Pending(fn, arg) == [fn |-> fn, arg |-> arg, value |-> NoCompletion]

\* the longest chain of nodes of a schema, and the deepest level toType is
\* entered at
MaxNodes == 5
MaxDepth == 3

LeafNodes ==
    {Node(NoEnum, "number", 0, NoProperties, NoRequired),
     Node(EnumList(<<StringLiteral("a"), OtherLiteral("1")>>), "string", 0,
          NoProperties, NoRequired),
     Node(EnumOther, "string", 0, NoProperties, NoRequired),
     Node(NoEnum, "undefined", 0, NoProperties, NoRequired),
     Node(NoEnum, "array", 0, NoProperties, NoRequired),
     Node(NoEnum, "object", 0, NoProperties, NoRequired)}

\* the nodes that hold the node c: an array of it, an object with it as the
\* property p
NodesAbove(c) ==
    {Node(NoEnum, "array", c, NoProperties, NoRequired)}
    \cup {Node(NoEnum, "object", 0, Properties(<<[key |-> "p", node |-> c]>>), r) :
              r \in {NoRequired, Required({"p"}), RequiredOther}}

\* the chains of n nodes, each holding the next
RECURSIVE Chains(_)
Chains(n) ==
    IF n = 0 THEN {<<>>}
    ELSE {Append(c, above) : c \in Chains(n - 1), above \in NodesAbove(n + 1)}

\* the schemas of n nodes: a chain that ends in a leaf or refers back to one
\* of its nodes
SchemasOf(n) ==
    {[root |-> 1, nodes |-> Append(c, last)] :
         c \in Chains(n - 1),
         last \in LeafNodes \cup UNION {NodesAbove(j) : j \in 1..n}}

\* a caller holds a schema and the level it is at
InitToType ==
    /\ ProgramInit
    /\ \E n \in 1..MaxNodes, d \in 0..MaxDepth :
           \E s \in SchemasOf(n) : probe = Pending("toType", [schema |-> s, d |-> d])

\* lines 213-239: the caller applies toType to it
ApplyToType ==
    /\ probe.fn = "toType"
    /\ probe.value = NoCompletion
    /\ probe' = [probe EXCEPT !.value = toTypeAt(probe.arg.schema.nodes,
                                                 probe.arg.schema.root,
                                                 probe.arg.d)]
    /\ UNCHANGED programVars

SpecToType == InitToType /\ [][ApplyToType]_vars

\* the strings sanitize is applied to: word characters, a dot and a dash
MaxLen == 3
Chars == WordChars \cup {".", "-"}
Strings == UNION {[1..n -> Chars] : n \in 0..MaxLen}

\* a caller holds a string
InitSanitize ==
    /\ ProgramInit
    /\ probe \in {[fn |-> "sanitize", arg |-> x, value |-> NoCompletion,
                   again |-> NoCompletion] : x \in Strings}

\* lines 183-184: the caller applies sanitize to it
ApplySanitize ==
    /\ probe.fn = "sanitize"
    /\ probe.value = NoCompletion
    /\ probe' = [probe EXCEPT !.value = Return(sanitize(probe.arg))]
    /\ UNCHANGED programVars

\* lines 183-184: the caller applies sanitize to the result
ApplySanitizeAgain ==
    /\ probe.fn = "sanitize"
    /\ probe.value # NoCompletion
    /\ probe.again = NoCompletion
    /\ probe' = [probe EXCEPT !.again = Return(sanitize(probe.value.value))]
    /\ UNCHANGED programVars

SpecSanitize == InitSanitize /\ [][ApplySanitize \/ ApplySanitizeAgain]_vars

(***************************************************************************)
(* Properties                                                              *)
(***************************************************************************)
Exited(c) == c.pc \in {"returned", "raised"}
InFlight(c) == c.pc \in {"connecting", "inCallback", "closing"}

\* the getClient calls the state holds: one per query of the current pass,
\* and the invocation's, if it made one
ExecId == <<"executeTool">>
CallIds == DOMAIN queries \cup (IF exec.call.pc = "none" THEN {} ELSE {ExecId})
CallAt(id) == IF id = ExecId THEN exec.call ELSE queries[id].call

\* C1, as stated: every call of the connector that has returned or raised has
\* invoked the session's close exactly once.
C1_EveryCallClosesOnce ==
    \A id \in CallIds : Exited(CallAt(id)) => CallAt(id).closes = 1

\* C1, amended: a call of the connector that created its session (the
\* transport was built) invokes close exactly once on each exit path
\* (connect fails, the callback raises, the callback returns), and has done
\* so when it returns or raises; close is not invoked before the try block
\* has completed.  A call whose remote address is no URL raises before a
\* session exists and invokes no close.
C1_SessionClosedOnceOnExit ==
    \A id \in CallIds :
        LET c == CallAt(id)
        IN  /\ (c.client /\ Exited(c)) => c.closes = 1
            /\ c.pc = "closing" => c.closes = 1
            /\ c.pc \in {"connecting", "inCallback"} => c.closes = 0
            /\ ~c.client => (c.pc = "raised" /\ c.closes = 0)

\* a call whose callback raised has raised to its caller, closed once
C1_Witness ==
    \E id \in CallIds :
        LET c == CallAt(id)
        IN  /\ c.pc = "raised"
            /\ c.pending = Raise("BackendError")
            /\ c.outcome = Raise("BackendError")
            /\ c.closes = 1

\* the filter rule as the specification words it, on raw names
KeptNames(cfg, names) ==
    LET allowed(n) == n \in ValueOf(cfg.allow)
        notDenied(n) == n \notin ValueOf(cfg.deny)
    IN  IF IsPresent(cfg.allow) THEN SelectSeq(names, allowed)
        ELSE IF IsPresent(cfg.deny) THEN SelectSeq(names, notDenied)
        ELSE names

NamesOf(tools) == [i \in 1..Len(tools) |-> tools[i].name]
Range(seq) == {seq[i] : i \in 1..Len(seq)}

\* the backends of the current pass whose query returned the tool list
Answered == {b \in DOMAIN queries : queries[b].call.pc = "returned"}

\* the (backend, raw name) pairs the current pass has to register
ExpectedPairs ==
    UNION {{<<b, n>> : n \in Range(KeptNames(queries[b].call.cfg,
                                            NamesOf(queries[b].call.outcome.value)))} :
              b \in Answered}

RegistryPairs == {<<toolRegistry[i].serverName, toolRegistry[i].tool.name>> :
                      i \in 1..Len(toolRegistry)}
ToolListNames == {toolList[i].name : i \in 1..Len(toolList)}

\* the closures of the dispatch map, as (backend, raw name) pairs
DispatchTargets(tools) ==
    UNION {{<<tools[i].value[j].value.serverName, tools[i].value[j].value.toolName>> :
               j \in 1..Len(tools[i].value)} : i \in 1..Len(tools)}

\* whether the dispatch map has a callable under the name the code gives to
\* a full name
Dispatches(tools, fullName) ==
    LET parts == split(fullName)
    IN  /\ hasKey(tools, sanitize(parts[1]))
        /\ hasKey(getEntry(tools, sanitize(parts[1])), toolKey(parts))

QueryErrors == {"InvalidUrl", "ConnectionError", "BackendError", "CloseError"}

\* the errors that generateInterfaces raises at line 139
SignatureErrors == {"NotAFunction", "RangeError"}

\* C2, as stated: whatever mix of answering and failing backends, the
\* aggregation completes without raising (each exited query has completed
\* normally and getAllServerTools raises neither a backend's error nor any
\* other), and once the aggregation has completed the router index and the
\* flat tool list hold exactly the filtered tools of the backends that
\* answered, and the dispatch map has a callable for each of them and
\* forwards to nothing else.  (A backend answers when the connector call
\* returns its list.)
C2_PartialFailureTolerated ==
    /\ initError \notin QueryErrors \cup SignatureErrors
    /\ \A b \in DOMAIN queries :
           Exited(queries[b].call) => queries[b].completion.kind = "return"
    /\ server = "McpServer" =>
           /\ RegistryPairs = ExpectedPairs
           /\ ToolListNames = {fullNameOf(p[1], p[2]) : p \in ExpectedPairs}
           /\ Len(serverConfig.interfaces) = Len(toolList)
           /\ DispatchTargets(serverConfig.tools) \subseteq ExpectedPairs
           /\ \A p \in ExpectedPairs :
                  Dispatches(serverConfig.tools, fullNameOf(p[1], p[2]))

\* aggregation has completed with one backend answering tools that pass its
\* filter and another having failed to connect
C2_Witness ==
    /\ server = "McpServer"
    /\ \E x, y \in DOMAIN queries :
           /\ queries[x].call.pc = "returned"
           /\ \E n \in ToolNames : <<x, n>> \in RegistryPairs
           /\ queries[y].call.pending = Raise("ConnectionError")
           /\ queries[y].call.outcome = Raise("ConnectionError")
           /\ \A n \in ToolNames : <<y, n>> \notin RegistryPairs

\* a query of the current pass is still in flight
SomeQueryInFlight == \E b \in DOMAIN queries : InFlight(queries[b].call)

\* C3: the aggregation is a join-all barrier: while a backend query is in
\* flight no step completes the aggregation or publishes the dispatch map or
\* the signature document, and once the aggregation has completed every
\* query has settled, as a success or as a failure.
C3_JoinAllBarrier ==
    /\ [][(initPc = "aggregating" /\ SomeQueryInFlight) =>
              /\ initPc' = "aggregating"
              /\ serverConfig'.tools = serverConfig.tools
              /\ serverConfig'.interfaces = serverConfig.interfaces]_vars
    /\ [](initPc \in {"registering", "connecting", "done"} =>
              \A b \in DOMAIN queries : Exited(queries[b].call))

\* one backend's tools are registered while another's query is still in
\* flight, and nothing is published
C3_Witness ==
    /\ initPc = "aggregating"
    /\ \E x, y \in DOMAIN queries :
           /\ queries[x].call.pc = "returned"
           /\ queries[x].completion.kind = "return"
           /\ InFlight(queries[y].call)
    /\ Len(toolRegistry) > 0
    /\ serverConfig.tools = <<>>
    /\ serverConfig.interfaces = <<>>

\* the pair is in the router index
InRegistry(registry, serverName, toolName) ==
    \E i \in 1..Len(registry) :
        registry[i].serverName = serverName /\ registry[i].tool.name = toolName

\* C4: executeTool on a pair that is not in the registry at the time of the
\* call fails with the not-found error, and no connector call is made for it
\* (no session, no remote call), whatever the registry holds.
C4_UnregisteredIsNotFound ==
    [][(exec.pc = "idle" /\ exec'.pc # "idle"
            /\ ~InRegistry(toolRegistry, exec'.serverName, exec'.toolName)) =>
          /\ exec'.pc = "done"
          /\ exec'.outcome = Raise("NotFound")
          /\ exec'.call = NoCall]_vars

\* not-found on a non-empty registry that has the tool name under another
\* backend
C4_Witness ==
    /\ exec.pc = "done"
    /\ exec.outcome = Raise("NotFound")
    /\ exec.call = NoCall
    /\ ~InRegistry(toolRegistry, exec.serverName, exec.toolName)
    /\ \E i \in 1..Len(toolRegistry) : toolRegistry[i].tool.name = exec.toolName

\* the raw names a backend's registrations carry, in registry order
RegisteredNames(b) ==
    LET ofBackend(e) == e.serverName = b
    IN  NamesOf([i \in 1..Len(SelectSeq(toolRegistry, ofBackend)) |->
                    SelectSeq(toolRegistry, ofBackend)[i].tool])

\* C5: the tools registered for a backend that answered are, in reported
\* order: with an allow list, exactly the reported tools named in it,
\* whatever the deny list holds; else with a deny list, exactly those not
\* named in it; with neither, all of them.
C5_FilterRule ==
    \A b \in DOMAIN queries :
        queries[b].call.pc = "returned" =>
            RegisteredNames(b) =
                KeptNames(queries[b].call.cfg, NamesOf(queries[b].serverTools))

\* a backend with both lists (allow t, deny t) reported t and u, and t alone
\* is registered
C5_Witness ==
    \E b \in DOMAIN queries :
        /\ queries[b].call.pc = "returned"
        /\ IsPresent(queries[b].call.cfg.allow)
        /\ IsPresent(queries[b].call.cfg.deny)
        /\ NamesOf(queries[b].serverTools) = <<ToolT, ToolU>>
        /\ RegisteredNames(b) = <<ToolT>>

\* the tool key the specification gives to a raw name: its dot-separated
\* segments, sanitized and joined with underscores
SegmentsKey(rawName) ==
    LET parts == split(rawName)
    IN  join([i \in 1..Len(parts) |-> sanitize(parts[i])], USCORE)

\* the qualified name of a registration:
\* sanitize(backend identifier) "." key of the raw name
QualifiedNameOf(e) == sanitize(e.serverName) \o DOT \o SegmentsKey(e.tool.name)

\* C6, as stated: after aggregation no two registered tools share a
\* qualified name, and where two backends whose identifiers sanitize to the
\* same string report the same raw tool name, the catalog entry and the
\* callable under that name remain those of the earlier registration.
C6_QualifiedNamesUnique ==
    server = "McpServer" =>
        \A i, j \in 1..Len(toolRegistry) :
            i < j =>
                LET first == toolRegistry[i]
                    later == toolRegistry[j]
                    fullName == fullNameOf(first.serverName, first.tool.name)
                    parts == split(fullName)
                IN  /\ QualifiedNameOf(later) # QualifiedNameOf(first)
                    /\ (/\ first.serverName # later.serverName
                        /\ sanitize(first.serverName) = sanitize(later.serverName)
                        /\ first.tool.name = later.tool.name) =>
                           /\ getEntry(serverConfig.serverTools,
                                       callableNameOf(fullName)).description
                                  = first.tool.description
                           /\ getEntry(getEntry(serverConfig.tools, sanitize(parts[1])),
                                       toolKey(parts)).serverName = first.serverName

ConfigErrors == {"ReadError", "SyntaxError", "TypeError"}

\* C7, as stated: init does not fail on a configuration that is missing,
\* unreadable, unparseable or without backends.
C7_ConfigTolerated ==
    initPc = "failed" => initError \notin ConfigErrors

\* C8, as stated: once a pass has completed, the router index, the tool
\* catalog, the flat list and the dispatch map hold exactly the tools that
\* this pass discovered, each once.
C8_RebuiltEachPass ==
    initPc \in {"registering", "connecting", "done"} =>
        /\ RegistryPairs = ExpectedPairs
        /\ Len(toolRegistry) = Cardinality(ExpectedPairs)
        /\ keysOf(serverConfig.serverTools) =
               {callableNameOf(fullNameOf(p[1], p[2])) : p \in ExpectedPairs}
        /\ ToolListNames = {fullNameOf(p[1], p[2]) : p \in ExpectedPairs}
        /\ DispatchTargets(serverConfig.tools) \subseteq ExpectedPairs

\* C9, as stated: when the connector's try block of an invocation ended with
\* an error (the connection failure or the backend's failure), executeTool
\* raises that very error to its caller.
C9_FailurePropagatesUnchanged ==
    (exec.pc = "done" /\ exec.call.pc # "none" /\ exec.call.pending.kind = "raise") =>
        exec.outcome = exec.call.pending

\* C10, as stated: every registered tool is exposed under the namespace
\* sanitize(backend identifier) and the key made of the raw name's segments,
\* in the dispatch map and in the catalog.
C10_NamespaceIsSanitizedBackend ==
    server = "McpServer" =>
        \A i \in 1..Len(toolRegistry) :
            LET ns == sanitize(toolRegistry[i].serverName)
                key == SegmentsKey(toolRegistry[i].tool.name)
            IN  /\ hasKey(serverConfig.tools, ns)
                /\ hasKey(getEntry(serverConfig.tools, ns), key)
                /\ hasKey(serverConfig.serverTools, ns \o DOT \o key)

(***************************************************************************)
(* Signature synthesis                                                     *)
(***************************************************************************)
ToTypeApplied == probe.fn = "toType" /\ probe.value.kind # "none"

\* C12, as stated: toType ends with a signature text and never raises, for
\* every schema, the malformed and the cyclic ones included.
C12_ToTypeNeverRaises ==
    ToTypeApplied => probe.value.kind = "text"

OpenMapping == "{ [key: string]: any }"
HasProperties(s) ==
    s.enum.kind = "absent" /\ s.type = "object" /\ s.properties.kind = "present"

\* four objects nested through their property p, the innermost declaring p
\* as a number
FourLevels ==
    LET object(c) == Node(NoEnum, "object", 0,
                          Properties(<<[key |-> "p", node |-> c]>>), NoRequired)
    IN  [root |-> 1,
         nodes |-> <<object(2), object(3), object(4), object(5),
                     Node(NoEnum, "number", 0, NoProperties, NoRequired)>>]

\* C16: an object node with declared properties entered at depth d > 2 is
\* rendered as the open string-keyed mapping, whatever its properties are;
\* entered at d <= 2, what toType renders for it is a record of its
\* properties, each rendered at d + 1; the items of an array are rendered at
\* d + 1 too; so of four nested objects the first three are records and the
\* fourth, at depth 3, is the open mapping.
C16_DepthCap ==
    ToTypeApplied =>
        LET nodes == probe.arg.schema.nodes
            s == nodes[probe.arg.schema.root]
            d == probe.arg.d
            v == probe.value
        IN  /\ (HasProperties(s) /\ d > 2) => v = Text(OpenMapping)
            /\ (HasProperties(s) /\ d <= 2 /\ v.kind = "text") =>
                   LET p == toTypeAt(nodes, s.properties.entries[1].node, d + 1)
                   IN  /\ p.kind = "text"
                       /\ v.text # OpenMapping
                       /\ v.text \in {"{ p: " \o p.text \o " }",
                                      "{ p?: " \o p.text \o " }"}
            /\ (s.type = "array" /\ s.items # 0 /\ v.kind = "text") =>
                   LET item == toTypeAt(nodes, s.items, d + 1)
                   IN  item.kind = "text" /\ v.text = "(" \o item.text \o ")[]"
            /\ (probe.arg.schema = FourLevels /\ d = 0) =>
                   v = Text("{ p?: { p?: { p?: { [key: string]: any } } } }")

\* the four nested objects were rendered from the root
C16_Witness ==
    /\ ToTypeApplied
    /\ probe.arg = [schema |-> FourLevels, d |-> 0]
    /\ probe.value.kind = "text"

(***************************************************************************)
(* sanitize                                                                *)
(***************************************************************************)
Letters == WordChars \ (Digits \cup {"_"})

\* C15: for every string x, sanitize(x) is a string of letters, digits and
\* '_' that does not begin with a digit, and sanitize(sanitize(x)) is
\* sanitize(x).
C15_SanitizeIdempotent ==
    (probe.fn = "sanitize" /\ probe.value.kind # "none") =>
        LET y == probe.value.value
        IN  /\ probe.value.kind = "return"
            /\ \A i \in 1..Len(y) : y[i] \in Letters \cup Digits \cup {"_"}
            /\ Len(y) > 0 => y[1] \notin Digits
            /\ probe.again.kind # "none" => probe.again = Return(y)

\* sanitize was applied twice to a string that begins with a digit and
\* holds a character that is no word character
C15_Witness ==
    /\ probe.fn = "sanitize"
    /\ probe.arg = <<"1", "-", "a">>
    /\ probe.value = Return(<<"_", "1", "_", "a">>)
    /\ probe.again.kind = "return"

(***************************************************************************)
(* Invocation                                                              *)
(***************************************************************************)
\* C14: an invocation whose connector call returned the backend's result
\* returns the result's structured payload if the result has one (also when
\* it has the unstructured content too), and the unstructured content
\* exactly when it has no structured payload.
C14_StructuredPayloadPreferred ==
    (exec.pc = "done" /\ exec.call.pc = "returned") =>
        LET result == exec.call.outcome.value
        IN  /\ result.structuredContent # "undefined" =>
                   exec.outcome = Return(result.structuredContent)
            /\ result.structuredContent = "undefined" =>
                   exec.outcome = Return(result.content)
            /\ (exec.outcome = Return(result.content)
                    /\ result.content # result.structuredContent) =>
                   result.structuredContent = "undefined"

\* an invocation has returned the structured payload of a result that has
\* both payloads
C14_Witness ==
    /\ exec.pc = "done"
    /\ exec.call.pc = "returned"
    /\ exec.call.outcome.value = [structuredContent |-> "structured",
                                  content |-> "content"]
    /\ exec.outcome = Return("structured")

\* the configurations as the document gives them, placeholders unexpanded
AsConfigured(cfg) == cfg \in Servers

\* C17: no step of executeTool (the lookup failing, the connector failing,
\* the call returning) changes the dispatch map, the tool catalog, the
\* signature document or the router index; and the configuration object of
\* every connector call, and of every entry of the router index, stays as
\* the document gives it: the invocation's connector call is given the
\* entry's configuration and leaves it as it was.
C17_RegistryWrittenOnlyByInit ==
    /\ [][/\ exec' # exec =>
               /\ serverConfig' = serverConfig
               /\ toolRegistry' = toolRegistry
          /\ (exec.pc = "idle" /\ exec'.call.pc # "none") =>
               \E i \in 1..Len(toolRegistry) :
                   /\ toolRegistry[i].serverName = exec'.serverName
                   /\ toolRegistry[i].tool.name = exec'.toolName
                   /\ exec'.call.cfg = toolRegistry[i].cfg]_vars
    /\ [](/\ \A id \in CallIds : AsConfigured(CallAt(id).cfg)
          /\ \A i \in 1..Len(toolRegistry) : AsConfigured(toolRegistry[i].cfg))

\* an invocation has finished whose connector call built its transport from
\* expanded values
C17_Witness ==
    /\ exec.pc = "done"
    /\ exec.call.pc = "returned"
    /\ exec.call.transport # exec.call.cfg
    /\ \E i \in 1..Len(toolRegistry) : toolRegistry[i].cfg = exec.call.cfg

\* the (backend, raw name) pairs that a backend reported and its filter
\* excludes
ExcludedPairs ==
    UNION {{<<b, n>> : n \in Range(NamesOf(queries[b].serverTools))
                              \ Range(KeptNames(queries[b].call.cfg,
                                                NamesOf(queries[b].serverTools)))} :
              b \in Answered}

\* an invocation starts in this step
ExecStarts == exec.pc = "idle" /\ exec'.pc # "idle"

\* C18: a tool that its backend reported and its filter excludes is in no
\* entry of the router index, no callable of the dispatch map forwards to
\* it, and executeTool(backend, raw name) for it raises not-found without a
\* connector call.
C18_ExcludedToolUnreachable ==
    /\ [](\A p \in ExcludedPairs :
              /\ p \notin RegistryPairs
              /\ p \notin DispatchTargets(serverConfig.tools)
              /\ \A i \in 1..Len(rawTools) :
                     <<rawTools[i].value.serverName, rawTools[i].value.toolName>> # p)
    /\ [][(ExecStarts /\ <<exec'.serverName, exec'.toolName>> \in ExcludedPairs) =>
              /\ exec'.pc = "done"
              /\ exec'.outcome = Raise("NotFound")
              /\ exec'.call = NoCall]_vars

\* after the aggregation, an invocation of a tool that the deny list of its
\* backend excludes has raised not-found
C18_Witness ==
    /\ server = "McpServer"
    /\ exec.pc = "done"
    /\ <<exec.serverName, exec.toolName>> \in ExcludedPairs
    /\ IsPresent(queries[exec.serverName].call.cfg.deny)
    /\ ~IsPresent(queries[exec.serverName].call.cfg.allow)
    /\ exec.outcome = Raise("NotFound")

\* C20: every callable of the published dispatch map forwards to a tool
\* that its backend listed and the filter kept, and invoking it (executeTool
\* with the pair the closure holds) does not raise not-found: it makes a
\* connector call with the configuration of the backend that listed the
\* tool, under that backend's identifier, whose request is a tool call with
\* the raw name the backend reported and the caller's arguments.
C20_CallableResolvable ==
    /\ [](DispatchTargets(serverConfig.tools) \subseteq ExpectedPairs)
    /\ [][(ExecStarts /\ <<exec'.serverName, exec'.toolName>>
                            \in DispatchTargets(serverConfig.tools)) =>
              /\ exec'.outcome # Raise("NotFound")
              /\ exec'.call.pc = "connecting"
              /\ exec'.call.client
              /\ exec'.call.name = exec'.serverName
              /\ exec'.call.cfg = queries[exec'.serverName].call.cfg
              /\ exec'.serverName \in Answered
              /\ exec'.toolName \in Range(NamesOf(queries[exec'.serverName].serverTools))
              /\ exec'.call.cb = CallRequest(exec'.toolName, exec'.args)]_vars
    /\ [](\A ns \in Namespaces, k \in Keys :
              (/\ hasKey(serverConfig.tools, ns)
               /\ hasKey(getEntry(serverConfig.tools, ns), k)) =>
                  LET fn == getEntry(getEntry(serverConfig.tools, ns), k)
                  IN  findEntry(toolRegistry, fn.serverName, fn.toolName) # 0)

\* the callable a.b_t, listed by the backend a.b as t, was invoked and the
\* backend a.b was sent the call for t
C20_Witness ==
    /\ Dispatches(serverConfig.tools, fullNameOf(ServerADotB, ToolT))
    /\ <<ServerADotB, ToolT>> \in DispatchTargets(serverConfig.tools)
    /\ exec.serverName = ServerADotB
    /\ exec.toolName = ToolT
    /\ exec.pc = "running"
    /\ exec.call.pc = "inCallback"
    /\ exec.call.requests = <<CallRequest(ToolT, "args")>>

(***************************************************************************)
(* Order and sessions                                                      *)
(***************************************************************************)
\* the tools of backend b that pass its filter, in reported order, each as
\* the (backend, raw name) pair its description carries
BlockOf(b) ==
    LET kept == KeptNames(queries[b].call.cfg, NamesOf(queries[b].serverTools))
    IN  [i \in 1..Len(kept) |-> <<b, kept[i]>>]

\* the blocks of the first n backends to resume with an answer, in that order
RECURSIVE BlocksUpTo(_)
BlocksUpTo(n) ==
    IF n = 0 THEN <<>>
    ELSE BlocksUpTo(n - 1)
         \o BlockOf(CHOOSE b \in DOMAIN queries : queries[b].resumedAt = n)

DescriptionsOf(tools) == [i \in 1..Len(tools) |-> tools[i].description]

\* C19: at every point of the aggregation the flat tool list is the
\* concatenation, in the order in which the backends' queries completed, of
\* one block per answering backend, each block holding that backend's
\* filtered tools in reported order; and the published signature document
\* declares the same tools in the same order.
C19_ContiguousBlocksInCompletionOrder ==
    /\ \A b \in DOMAIN queries :
           (queries[b].resumedAt > 0) = (queries[b].call.pc = "returned")
    /\ DescriptionsOf(toolList) = BlocksUpTo(Cardinality(Answered))
    /\ server = "McpServer" =>
           DescriptionsOf(serverConfig.interfaces) = DescriptionsOf(toolList)

\* two backends have answered two tools each, the backend a.b before the
\* backend a, and the document is published
C19_Witness ==
    /\ server = "McpServer"
    /\ DOMAIN queries = {ServerA, ServerADotB}
    /\ queries[ServerADotB].resumedAt = 1
    /\ queries[ServerA].resumedAt = 2
    /\ Len(BlockOf(ServerA)) = 2
    /\ Len(BlockOf(ServerADotB)) = 2
    /\ Len(serverConfig.interfaces) = 4

\* whether the call c got as far as invoking its callback
CallbackInvoked(c) ==
    \/ c.pc = "inCallback"
    \/ /\ c.pc \in {"closing", "returned", "raised"}
       /\ c.client
       /\ c.pending # Raise("ConnectionError")

\* the request of the operation that made the call id
RequestOf(id) ==
    IF id = ExecId THEN CallRequest(exec.toolName, exec.args) ELSE ListRequest

\* C13, as stated: every backend query of a pass that has finished opened a
\* session and issued exactly one tool-list request on it, every finished
\* invocation of a registered tool opened a session and issued exactly one
\* call request with the raw name and the arguments, and each finished
\* operation closed its session.
C13_OneSessionOneRequest ==
    \A id \in CallIds :
        Exited(CallAt(id)) =>
            /\ CallAt(id).client
            /\ CallAt(id).requests = <<RequestOf(id)>>
            /\ CallAt(id).closes = 1

\* C13, amended: every operation (a backend's query of the pass, an
\* invocation of a registered tool) makes one connector call of its own,
\* which starts with a new client, no request issued and close not invoked;
\* it creates a session unless the remote address is no URL; it issues its
\* request (tools/list, or the tool call with the raw name and the
\* arguments) exactly once if the connection is established and never
\* otherwise; a call that has finished is not run again; and every session
\* that was created has had close invoked once when its operation has
\* finished.
C13_OneOperationPerSession ==
    /\ [](\A id \in CallIds :
              LET c == CallAt(id)
              IN  /\ c.cb = RequestOf(id)
                  /\ c.client = (c.cfg.url # "invalid")
                  /\ c.requests = IF CallbackInvoked(c) THEN <<RequestOf(id)>> ELSE <<>>
                  /\ (Exited(c) /\ c.client) => c.closes = 1)
    /\ [][/\ \A b \in DOMAIN queries :
                 (b \in DOMAIN queries' /\ Exited(queries[b].call)) =>
                     queries'[b].call = queries[b].call
          /\ (exec.pc = "done" /\ exec'.pc # "idle") => exec' = exec
          /\ (ExecStarts /\ exec'.call.pc # "none") =>
                 /\ exec'.call.requests = <<>>
                 /\ exec'.call.closes = 0
                 /\ exec'.call.client]_vars

\* a pass has finished in which one backend could not be connected to (no
\* request was issued on its session) and another answered its one
\* tools/list request, and an invocation has finished after its one call
C13_Witness ==
    /\ server = "McpServer"
    /\ \E x, y \in DOMAIN queries :
           /\ queries[x].call.pending = Raise("ConnectionError")
           /\ queries[x].call.pc = "raised"
           /\ queries[x].call.requests = <<>>
           /\ queries[x].call.closes = 1
           /\ queries[y].call.pc = "returned"
           /\ queries[y].call.requests = <<ListRequest>>
    /\ exec.pc = "done"
    /\ exec.call.pc = "returned"
    /\ exec.call.requests = <<CallRequest(exec.toolName, "args")>>
    /\ exec.call.closes = 1

(***************************************************************************)
(* The published views                                                     *)
(***************************************************************************)
\* the qualified names of the callables of a dispatch map
DispatchNames(tools) ==
    UNION {{tools[i].key \o DOT \o tools[i].value[j].key :
               j \in 1..Len(tools[i].value)} : i \in 1..Len(tools)}

\* the qualified name that a declaration of the signature document declares
DeclaredName(d) ==
    IF IsPresent(d.namespace) THEN ValueOf(d.namespace) \o DOT \o d.function
    ELSE d.function

\* the closure that the dispatch map holds under a qualified name
CallableAt(tools, name) ==
    LET parts == split(name)
    IN  getEntry(getEntry(tools, parts[1]), parts[2])

\* getAllServerTools has returned
AfterAggregation == initPc \in {"registering", "connecting", "done"}

\* C11, as stated: after the aggregation the dispatch map, the tool catalog
\* and the signature document hold the same set of qualified names, and for
\* each name the callable, the catalog entry and every declaration of it
\* come from the same registration (the same backend and raw tool).
C11_ViewsInLockStep ==
    AfterAggregation =>
        /\ DispatchNames(serverConfig.tools) = keysOf(serverConfig.serverTools)
        /\ {DeclaredName(serverConfig.interfaces[i]) :
                i \in 1..Len(serverConfig.interfaces)} = keysOf(serverConfig.serverTools)
        /\ \A i \in 1..Len(serverConfig.interfaces) :
               LET d == serverConfig.interfaces[i]
                   fn == CallableAt(serverConfig.tools, DeclaredName(d))
               IN  /\ getEntry(serverConfig.serverTools, DeclaredName(d)).description
                          = d.description
                   /\ <<fn.serverName, fn.toolName>> = d.description

====